---- MODULE Spec2Model ----
(***************************************************************************)
(* The generate -> execute -> critique -> retry loop of the pytest test    *)
(* generator, in its two graph variants:                                   *)
(*   "graph" : src/src/graph/{builder,nodes,state}.py, driven by           *)
(*             src/src/main.py and src/app.py                              *)
(*   "v2"    : src/Version2.py                                             *)
(* One action per graph node and one for the conditional edge              *)
(* should_continue.  The text-generation service, the test runner and the  *)
(* input files are the environment: their answers are drawn from small     *)
(* sets.                                                                   *)
(***************************************************************************)
EXTENDS Integers, Sequences, FiniteSets, TLC

\* ------------------------------------------------------------- bounds
\* Largest max_iterations value tried (the CLI takes any integer, the
\* sliders 1..5 and 1..7).
MaxBudget == 2
\* Largest number of detected functions / collected tests tried.
MaxTests == 1
\* The most names the README patterns match, and the most top-level
\* definitions of a user source.
MaxMatches == 2
MaxItems == 2

VARIABLES
    variant,            \* which program runs: "graph" (src/graph), "v2"
                        \* (Version2.py) or "v1" (Version1.py, single pass)
    edge_writes_kept,   \* whether the graph runtime keeps what a conditional
                        \* edge function assigns to the state it was handed
    pc,                 \* the node about to run ("route": the conditional edge)
    fault,              \* the exception that ended the run, or "none"
    edge,               \* the branch should_continue took last
    iteration,          \* state["iteration"]
    max_iterations,     \* state["max_iterations"]
    status,             \* state["status"]
    feedback,           \* state["feedback"]
    num_functions,      \* state["num_functions"]
    report,             \* state["report"]
    return_code,        \* state["return_code"]
    pytest_stderr,      \* state["pytest_stderr"] (its kind)
    iteration_results,  \* state["iteration_results"]
    final_message,      \* whether state["final_message"] has been set
    report_file,        \* the .report.json artifact in the working directory
    runner_outcome,     \* what the latest invocation of the test runner did
    generations,        \* number of generate steps that ran
    critic_calls,       \* number of calls made to llm_critic
    reporter_runs,      \* number of times the reporter step was entered
    verdicts,           \* the verdicts critic_node emitted, oldest first
    readme_content,     \* state["readme_content"]: the names its patterns match
    user_functions,     \* state["user_functions"]: the parsed user source
    detected_functions, \* state["detected_functions"]
    filtered_functions, \* what combiner_node takes from the user source
    run_pc,             \* two runs in one directory: each run's position
    test_combined_py,   \* ... whose code test_combined.py holds (0: no file)
    pytest_loaded,      \* ... whose code each run's test runner loaded
    report_json,        \* ... the report .report.json holds
    run_report,         \* ... the report each run read for its Critic
    cli_pc,             \* main.py: the statement the process is at
    exit_code,          \* main.py: the exit code of the process once it ended
    credential,         \* whether GROQ_API_KEY is set in the environment
    readme_file,        \* the file --readme names: how open() answers
    code_file,          \* the file --code names: how open() answers
    written_files,      \* the files write_file has written in this run
    code_keywords,      \* the framework imports the user source contains
    framework,          \* state["framework"]
    combined_code       \* state["combined_code"]: the wrapper it was built with

vars == << variant, edge_writes_kept, pc, fault, edge, iteration,
           max_iterations, status, feedback, num_functions, report,
           return_code, pytest_stderr, iteration_results, final_message,
           report_file, runner_outcome, generations, critic_calls,
           reporter_runs, verdicts, readme_content, user_functions,
           detected_functions, filtered_functions, run_pc, test_combined_py,
           pytest_loaded, report_json, run_report, cli_pc, exit_code,
           credential, readme_file, code_file, written_files, code_keywords,
           framework, combined_code >>

\* The variants with a retry loop.
Variants == {"graph", "v2"}

\* ------------------------------------------------------------ reports
\* A structured report is modelled by its "summary" object.  NoReport is
\* both the missing artifact and the {} that execution_node stores for None.
NoReport == [present |-> FALSE, collected |-> 0, passed |-> 0,
             failed |-> 0, errors |-> 0]

\* The summaries the test runner can write: every collected test has one
\* outcome, or collection itself failed (collected = 0, errors = 1).
Summaries ==
    { [present |-> TRUE, collected |-> c, passed |-> p,
       failed |-> f, errors |-> e] :
        c \in 0..MaxTests, p \in 0..MaxTests, f \in 0..MaxTests, e \in 0..1 }

RunnerSummaries ==
    { s \in Summaries :
        \/ s.passed + s.failed + s.errors = s.collected
        \/ s.collected = 0 /\ s.passed = 0 /\ s.failed = 0 /\ s.errors = 1 }

\* summary.get(key, 0) on report.get("summary", {})
SummaryGet(rep, key) ==
    IF ~rep.present THEN 0
    ELSE CASE key = "collected" -> rep.collected
           [] key = "passed"    -> rep.passed
           [] key = "failed"    -> rep.failed
           [] key = "errors"    -> rep.errors

\* ------------------------------------------------- execution adapter
\* The .report.json artifact: absent, unparsable, or a report.
AbsentFile == [kind |-> "absent", summary |-> NoReport]
GarbledFile == [kind |-> "garbled", summary |-> NoReport]
ReportFile(s) == [kind |-> "report", summary |-> s]

\* What one invocation of the test runner does: it exceeds the timeout (or
\* cannot be started), or it finishes and writes a report, an unparsable
\* report or nothing.
RunnerOutcomes ==
    { [kind |-> "timeout", wrote |-> AbsentFile],
      [kind |-> "finished", wrote |-> AbsentFile],
      [kind |-> "finished", wrote |-> GarbledFile] }
    \cup { [kind |-> "finished", wrote |-> ReportFile(s)] : s \in RunnerSummaries }

\* Before the first invocation.
NoOutcome == [kind |-> "none", wrote |-> AbsentFile]

\* proc.returncode of a finished runner (pytest's exit codes: 0 all passed,
\* 1 failures, 2 collection interrupted, 4 usage error, 5 nothing collected).
ProcReturnCode(wrote) ==
    IF wrote.kind # "report" THEN 4
    ELSE IF wrote.summary.collected = 0
         THEN (IF wrote.summary.errors > 0 THEN 2 ELSE 5)
         ELSE IF wrote.summary.passed = wrote.summary.collected
                 /\ wrote.summary.errors = 0 THEN 0 ELSE 1

\* The artifact after the stale-report deletion that opens run_pytest_json
\* in the graph variant; Version2.py has no such deletion.
AfterStaleDelete(v, file) == IF v = "graph" THEN AbsentFile ELSE file

\* The artifact after the runner ran: a finished runner that writes
\* something replaces it, anything else leaves it as it was.
FileAfterRun(v, file, out) ==
    IF out.kind = "finished" /\ out.wrote.kind # "absent"
    THEN out.wrote
    ELSE AfterStaleDelete(v, file)

\* run_pytest_json with the timeout reported as an ordinary failed run.
run_pytest_json_timeout_as_failure(v, file, out) ==
    LET after == FileAfterRun(v, file, out) IN
    IF out.kind = "timeout"
    THEN [return_code |-> 1, report |-> NoReport, stderr |-> "timeout"]
    ELSE IF after.kind = "garbled"
    THEN [return_code |-> -1, report |-> NoReport, stderr |-> "json_error"]
    ELSE IF after.kind = "report"
    THEN [return_code |-> ProcReturnCode(out.wrote), report |-> after.summary,
          stderr |-> "runner"]
    ELSE [return_code |-> ProcReturnCode(out.wrote), report |-> NoReport,
          stderr |-> "runner"]

\* run_pytest_json: (returncode, report, stderr kind).  report is NoReport
\* for None.  An exception (timeout, unparsable artifact) gives -1 and None.
run_pytest_json(v, file, out) ==
    LET after == FileAfterRun(v, file, out) IN
    IF out.kind = "timeout"
    THEN [return_code |-> -1, report |-> NoReport, stderr |-> "timeout"]
    ELSE IF after.kind = "garbled"
    THEN [return_code |-> -1, report |-> NoReport, stderr |-> "json_error"]
    ELSE IF after.kind = "report"
    THEN [return_code |-> ProcReturnCode(out.wrote), report |-> after.summary,
          stderr |-> "runner"]
    ELSE [return_code |-> ProcReturnCode(out.wrote), report |-> NoReport,
          stderr |-> "runner"]

\* Version1.py's run_pytest_json: subprocess.run is outside any try, so the
\* timeout leaves the function as an exception; no stale-report deletion;
\* an unparsable artifact gives None.
v1_run_pytest_json(file, out) ==
    LET after == FileAfterRun("v1", file, out) IN
    IF out.kind = "timeout"
    THEN [raised |-> TRUE, report |-> NoReport]
    ELSE IF after.kind = "report"
    THEN [raised |-> FALSE, report |-> after.summary]
    ELSE [raised |-> FALSE, report |-> NoReport]

\* The Iteration Record execution_node appends.
IterationRecord(it, rep) ==
    [iteration |-> it,
     collected |-> SummaryGet(rep, "collected"),
     passed    |-> SummaryGet(rep, "passed"),
     failed    |-> SummaryGet(rep, "failed"),
     errors    |-> SummaryGet(rep, "errors")]

\* ------------------------------------------------------------- critic
\* The verdict strings the text-generation service may answer with; Absent
\* stands for a payload without the key.
Absent == "<absent>"
StatusAnswers == {"success", "needs_fix", "incomplete", "test_error",
                  "source_error", "max_iterations", "unknown"}

\* response.content of llm_critic, by shape:
\*   prose   : text without braces, not JSON
\*   array   : JSON that is not an object, without braces (e.g. [] or 3)
\*   broken  : braces around text that is not JSON
\*   wrapped : a JSON object with text or a code fence around it
\*   object  : a JSON object and nothing else
\* text names which of "feedback" / "message" the object carries.
CriticResponses ==
    { [shape |-> sh, status |-> Absent, text |-> "none"] :
        sh \in {"prose", "array", "broken"} }
    \cup { [shape |-> sh, status |-> st, text |-> tx] :
            sh \in {"wrapped", "object"},
            st \in StatusAnswers \cup {Absent},
            tx \in {"feedback", "message", "none"} }

Raised == [raised |-> TRUE, status |-> Absent, feedback |-> Absent]
Parsed(st, fb) == [raised |-> FALSE, status |-> st, feedback |-> fb]

\* nodes.py 244-250: json.loads, except json.JSONDecodeError, then
\* result.get(...) outside the try.
graph_parse(resp) ==
    CASE resp.shape \in {"prose", "broken", "wrapped"} ->
            Parsed("needs_fix", "Critic response was not valid JSON.")
      [] resp.shape = "array" -> Raised
      [] resp.shape = "object" ->
            Parsed(IF resp.status = Absent THEN "needs_fix" ELSE resp.status,
                   IF resp.text = "feedback" THEN "llm feedback"
                   ELSE "No feedback provided.")

\* Version2.py 298-308: re.search(r'\{.*\}'), json.loads of the match, bare
\* except, then result.get(...).
v2_parse(resp) ==
    CASE resp.shape \in {"prose", "array"} ->
            Parsed("test_error", "Could not parse critic response")
      [] resp.shape = "broken" ->
            Parsed("test_error", "Error parsing critic response")
      [] resp.shape \in {"wrapped", "object"} ->
            Parsed(IF resp.status = Absent THEN "unknown" ELSE resp.status,
                   CASE resp.text = "feedback" -> "llm feedback"
                     [] resp.text = "message"  -> "llm message"
                     [] OTHER                  -> "")

parse_critic_response(v, resp) ==
    IF v = "graph" THEN graph_parse(resp) ELSE v2_parse(resp)

\* A variant of the early exit that compares the collected count with the
\* expected count the wrong way round.
FastPath_wrong_count(v, rep, nf) ==
    /\ SummaryGet(rep, "collected") > 0
    /\ SummaryGet(rep, "passed") = SummaryGet(rep, "collected")
    /\ SummaryGet(rep, "collected") # nf

\* A critic without the early exit: every report goes to the service.
FastPath_never(v, rep, nf) == FALSE

\* The early exit of critic_node.
FastPath(v, rep, nf) ==
    LET collected == SummaryGet(rep, "collected")
        passed    == SummaryGet(rep, "passed")
        failed    == SummaryGet(rep, "failed")
        errors    == SummaryGet(rep, "errors")
    IN IF v = "graph"
       THEN collected > 0 /\ passed = collected
       ELSE collected = nf /\ passed = collected /\ failed = 0 /\ errors = 0

FastPathFeedback(v) ==
    IF v = "graph" THEN "All tests passed successfully."
    ELSE "All tests passed successfully"

\* A variant of the increment that forgets the verdict incomplete / counts
\* every verdict but success.
CriticIncrements_drifted(v, st) ==
    IF v = "graph" THEN st # "success" ELSE st = "test_error"

\* The verdicts after which critic_node adds 1 to state["iteration"].
CriticIncrements(v, st) ==
    IF v = "graph" THEN st = "needs_fix"
    ELSE st \in {"test_error", "incomplete"}

\* ------------------------------------------------------------ routing
\* Variants of should_continue: the retry check before the bound check; the
\* bound compared with >=; the bound compared one too late.
should_continue_retry_first(v, st, it, mx) ==
    IF st = "success" THEN "success"
    ELSE IF v = "v2" /\ st = "source_error" THEN "source_error"
    ELSE IF (IF v = "graph" THEN st = "needs_fix"
             ELSE st \in {"test_error", "incomplete"}) THEN "retry"
    ELSE IF it > mx THEN "bound"
    ELSE "default"

should_continue_bound_early(v, st, it, mx) ==
    IF st = "success" THEN "success"
    ELSE IF v = "v2" /\ st = "source_error" THEN "source_error"
    ELSE IF it >= mx THEN "bound"
    ELSE IF (IF v = "graph" THEN st = "needs_fix"
             ELSE st \in {"test_error", "incomplete"}) THEN "retry"
    ELSE "default"

should_continue_bound_late(v, st, it, mx) ==
    IF st = "success" THEN "success"
    ELSE IF v = "v2" /\ st = "source_error" THEN "source_error"
    ELSE IF it > mx + 1 THEN "bound"
    ELSE IF (IF v = "graph" THEN st = "needs_fix"
             ELSE st \in {"test_error", "incomplete"}) THEN "retry"
    ELSE "default"

\* A variant of should_continue that gives up on a flask application.
should_continue_reads_framework(v, st, it, mx) ==
    IF st = "success" THEN "success"
    ELSE IF v = "v2" /\ st = "source_error" THEN "source_error"
    ELSE IF it > mx THEN "bound"
    ELSE IF framework = "flask" THEN "default"
    ELSE IF (IF v = "graph" THEN st = "needs_fix"
                  ELSE st \in {"test_error", "incomplete"}) THEN "retry"
    ELSE "default"

\* The branch should_continue takes; "retry" returns "generate", every
\* other branch returns "reporter".
should_continue(v, st, it, mx) ==
    IF st = "success" THEN "success"
    ELSE IF v = "v2" /\ st = "source_error" THEN "source_error"
    ELSE IF it > mx THEN "bound"
    ELSE IF (IF v = "graph" THEN st = "needs_fix"
                  ELSE st \in {"test_error", "incomplete"}) THEN "retry"
    ELSE "default"

\* A variant of the mapping that sends a retry straight to execute.
EdgeTarget_skips_generate(branch) ==
    IF branch = "retry" THEN "execute" ELSE "reporter"

\* The node a branch leads to (the mapping given to add_conditional_edges).
EdgeTarget(branch) == IF branch = "retry" THEN "generate" ELSE "reporter"

\* ------------------------------------------------- content and files
\* The user source as ast.parse sees it: whether it parses, and its
\* top-level definitions in order (functions, and classes with methods).
NoSource == [parses |-> TRUE, items |-> << >>]

\* What extract_user_functions returns: the whole source, or the extracted
\* definitions in order.
NoOutput == [whole |-> FALSE, items |-> << >>]

\* The fields the loop model keeps as counts only.
ContentVars ==
    << readme_content, user_functions, detected_functions, filtered_functions >>

ContentIdle ==
    /\ readme_content = << >>
    /\ user_functions = NoSource
    /\ detected_functions = << >>
    /\ filtered_functions = NoOutput

\* Two runs that share a working directory.
RunIds == 1..2

\* A report artifact tagged with the run whose runner wrote it and the run
\* whose combined code that runner executed; by = 0: no artifact, None.
NoArtifact == [by |-> 0, code |-> 0]

SharedDirVars ==
    << run_pc, test_combined_py, pytest_loaded, report_json, run_report >>

SharedDirIdle ==
    /\ run_pc = [r \in RunIds |-> "off"]
    /\ test_combined_py = 0
    /\ pytest_loaded = [r \in RunIds |-> 0]
    /\ report_json = NoArtifact
    /\ run_report = [r \in RunIds |-> NoArtifact]

\* The command-line process around the graph (main.py); "off" where the
\* loop is looked at without its entry point.
CliVars ==
    << cli_pc, exit_code, credential, readme_file, code_file, written_files >>

CliIdle ==
    /\ cli_pc = "off"
    /\ exit_code = 0
    /\ credential = TRUE
    /\ readme_file = "readable"
    /\ code_file = "readable"
    /\ written_files = {}

\* The framework tag and what is built from it; a user source without
\* framework imports where the tag is not looked at.
TagVars == << code_keywords, framework, combined_code >>

TagIdle ==
    /\ code_keywords = {}
    /\ framework = "generic"
    /\ combined_code = ""

\* -------------------------------------------------------------- state
\* max_iterations as the entry points set it: --max-iterations takes any
\* integer (main.py), the sliders start at 1 (app.py, Version2.py).
BudgetInputs(v) == IF v = "graph" THEN (-1)..MaxBudget ELSE 1..MaxBudget

\* A report artifact left in the working directory by an earlier run.
StaleFiles ==
    {AbsentFile,
     ReportFile([present |-> TRUE, collected |-> MaxTests, passed |-> MaxTests,
                 failed |-> 0, errors |-> 0])}

Init ==
    /\ variant \in Variants
    /\ edge_writes_kept \in BOOLEAN
    /\ pc = "detect"
    /\ fault = "none"
    /\ edge = "none"
    /\ iteration = 1
    /\ max_iterations \in BudgetInputs(variant)
    /\ status = ""
    /\ feedback = ""
    /\ num_functions = 0
    /\ report = NoReport
    /\ return_code = -1
    /\ pytest_stderr = ""
    /\ iteration_results = << >>
    /\ final_message = FALSE
    /\ report_file \in StaleFiles
    /\ runner_outcome = NoOutcome
    /\ generations = 0
    /\ critic_calls = 0
    /\ reporter_runs = 0
    /\ verdicts = << >>
    /\ ContentIdle
    /\ SharedDirIdle
    /\ CliIdle
    /\ TagIdle

\* What no node ever assigns.
Config == << variant, edge_writes_kept, max_iterations >>

\* ------------------------------------------------------------- nodes
\* function_detector_node: README names win, then names from the code (graph
\* variant); README names only (Version2.py).
DetectedCount(v, nReadme, nCode) ==
    IF v = "graph"
    THEN (IF nReadme > 0 THEN nReadme ELSE IF nCode > 0 THEN nCode ELSE 0)
    ELSE nReadme

\* The framework imports detect_framework looks for in the lower-cased
\* user source.
FrameworkImports == {"flask", "django", "fastapi"}

\* A variant of detect_framework that looks for fastapi before flask.
detect_framework_fastapi_first(keywords) ==
    IF "fastapi" \in keywords THEN "fastapi"
    ELSE IF "flask" \in keywords THEN "flask"
    ELSE IF "django" \in keywords THEN "django"
    ELSE "generic"

\* detect_framework: the first of flask, django, fastapi the source imports.
detect_framework(keywords) ==
    IF "flask" \in keywords THEN "flask"
    ELSE IF "django" \in keywords THEN "django"
    ELSE IF "fastapi" \in keywords THEN "fastapi"
    ELSE "generic"

\* The wrapper combiner_node builds the combined code with.
Wrapper(tag) == IF tag = "flask" THEN "flask" ELSE "plain"

function_detector_node ==
    /\ pc = "detect"
    /\ \E nReadme \in 0..MaxTests, nCode \in 0..MaxTests :
          num_functions' = DetectedCount(variant, nReadme, nCode)
    /\ framework' = (IF variant = "graph" THEN detect_framework(code_keywords)
                     ELSE framework)
    /\ pc' = "generate"
    /\ UNCHANGED << Config, ContentVars, SharedDirVars, CliVars,
                    code_keywords, combined_code,
                    fault, edge, iteration, status, feedback, report,
                    return_code, pytest_stderr, iteration_results,
                    final_message, report_file, runner_outcome, generations, critic_calls,
                    reporter_runs, verdicts >>

\* test_generator_node / generator_node: one call to llm_generator, which
\* returns or raises; nothing catches the exception.
test_generator_node ==
    /\ variant \in Variants
    /\ pc = "generate"
    /\ generations' = generations + 1
    /\ \E llm_ok \in BOOLEAN :
          IF llm_ok
          THEN /\ pc' = (IF variant = "graph" THEN "combine" ELSE "execute")
               /\ fault' = fault
          ELSE /\ pc' = "crashed"
               /\ fault' = "llm_generator"
    /\ UNCHANGED << Config, ContentVars, SharedDirVars, CliVars, TagVars,
                    edge, iteration, status, feedback, num_functions,
                    report, return_code, pytest_stderr, iteration_results,
                    final_message, report_file, runner_outcome, critic_calls, reporter_runs, verdicts >>

\* combiner_node (graph variant only).
combiner_node ==
    /\ pc = "combine"
    /\ combined_code' = Wrapper(framework)
    /\ pc' = "execute"
    /\ UNCHANGED << Config, ContentVars, SharedDirVars, CliVars,
                    code_keywords, framework,
                    fault, edge, iteration, status, feedback,
                    num_functions, report, return_code, pytest_stderr,
                    iteration_results, final_message, report_file, runner_outcome,
                    generations, critic_calls, reporter_runs, verdicts >>

\* A variant of execution_node that keeps only the latest record.
execution_node_overwrites ==
    /\ variant \in Variants
    /\ pc = "execute"
    /\ \E out \in RunnerOutcomes :
          LET r == run_pytest_json(variant, report_file, out) IN
          /\ report_file' = FileAfterRun(variant, report_file, out)
          /\ runner_outcome' = out
          /\ return_code' = r.return_code
          /\ report' = r.report
          /\ pytest_stderr' = r.stderr
          /\ iteration_results' = << IterationRecord(iteration, r.report) >>
    /\ pc' = "critic"
    /\ UNCHANGED << Config, ContentVars, SharedDirVars, CliVars, TagVars,
                    fault, edge, iteration, status, feedback,
                    num_functions, final_message, generations, critic_calls,
                    reporter_runs, verdicts >>

\* execution_node: run_pytest_json, then the state update and the append.
execution_node ==
    /\ variant \in Variants
    /\ pc = "execute"
    /\ \E out \in RunnerOutcomes :
          LET r == run_pytest_json(variant, report_file, out) IN
          /\ report_file' = FileAfterRun(variant, report_file, out)
          /\ runner_outcome' = out
          /\ return_code' = r.return_code
          /\ report' = r.report
          /\ pytest_stderr' = r.stderr
          /\ iteration_results' =
                Append(iteration_results, IterationRecord(iteration, r.report))
    /\ pc' = "critic"
    /\ UNCHANGED << Config, ContentVars, SharedDirVars, CliVars, TagVars,
                    fault, edge, iteration, status, feedback,
                    num_functions, final_message, generations, critic_calls,
                    reporter_runs, verdicts >>

\* critic_node: the early exit, else one call to llm_critic (which returns
\* or raises), the parse of its answer, and the counter increment.
critic_node ==
    /\ pc = "critic"
    /\ IF FastPath(variant, report, num_functions)
       THEN /\ status' = "success"
            /\ feedback' = FastPathFeedback(variant)
            /\ pc' = "route"
            /\ verdicts' = Append(verdicts, "success")
            /\ UNCHANGED << fault, iteration, critic_calls >>
       ELSE /\ critic_calls' = critic_calls + 1
            /\ \E llm_ok \in BOOLEAN :
                 IF ~llm_ok
                 THEN /\ pc' = "crashed"
                      /\ fault' = "llm_critic"
                      /\ UNCHANGED << status, feedback, iteration, verdicts >>
                 ELSE \E resp \in CriticResponses :
                        LET r == parse_critic_response(variant, resp) IN
                        IF r.raised
                        THEN /\ pc' = "crashed"
                             /\ fault' = "critic_parse"
                             /\ UNCHANGED << status, feedback, iteration, verdicts >>
                        ELSE /\ status' = r.status
                             /\ feedback' = r.feedback
                             /\ iteration' =
                                  (IF CriticIncrements(variant, r.status)
                                   THEN iteration + 1 ELSE iteration)
                             /\ verdicts' = Append(verdicts, r.status)
                             /\ pc' = "route"
                             /\ fault' = fault
    /\ UNCHANGED << Config, ContentVars, SharedDirVars, CliVars, TagVars,
                    edge, num_functions, report, return_code,
                    pytest_stderr, iteration_results, final_message,
                    report_file, runner_outcome, generations, reporter_runs >>

\* The conditional edge after critic: should_continue picks the next node.
\* Its assignments to the state reach the next node only if the graph
\* runtime keeps them.
conditional_edge ==
    /\ pc = "route"
    /\ LET branch == should_continue(variant, status, iteration, max_iterations)
           written == branch = "bound" /\ edge_writes_kept
       IN /\ edge' = branch
          /\ pc' = EdgeTarget(branch)
          /\ status' = (IF written THEN "max_iterations" ELSE status)
          /\ feedback' = (IF written /\ variant = "v2"
                          THEN "Reached maximum iterations" ELSE feedback)
    /\ UNCHANGED << Config, ContentVars, SharedDirVars, CliVars, TagVars,
                    fault, iteration, num_functions, report,
                    return_code, pytest_stderr, iteration_results,
                    final_message, report_file, runner_outcome, generations, critic_calls,
                    reporter_runs, verdicts >>

\* reporter_node: one call to llm_reporter, then the edge to END.
reporter_node ==
    /\ pc = "reporter"
    /\ reporter_runs' = reporter_runs + 1
    /\ \E llm_ok \in BOOLEAN :
          IF llm_ok
          THEN /\ final_message' = TRUE
               /\ pc' = "end"
               /\ fault' = fault
          ELSE /\ final_message' = final_message
               /\ pc' = "crashed"
               /\ fault' = "llm_reporter"
    /\ UNCHANGED << Config, ContentVars, SharedDirVars, CliVars, TagVars,
                    edge, iteration, status, feedback, num_functions,
                    report, return_code, pytest_stderr, iteration_results,
                    report_file, runner_outcome, generations, critic_calls, verdicts >>

Next ==
    \/ function_detector_node
    \/ test_generator_node
    \/ combiner_node
    \/ execution_node
    \/ critic_node
    \/ conditional_edge
    \/ reporter_node

Spec == Init /\ [][Next]_vars

\* The graph runtime runs the next node as soon as the previous one returns.
FairSpec == Spec /\ WF_vars(Next)

\* ------------------------------------------- the single-pass program
\* Version1.py: one generation, one execution, then the summary; no Critic,
\* no loop.  The script reports an exception of the generation or of the
\* runner with st.error and stops.
V1Init ==
    /\ variant = "v1"
    /\ edge_writes_kept = FALSE
    /\ pc = "generate"
    /\ fault = "none"
    /\ edge = "none"
    /\ iteration = 1
    /\ max_iterations = 1
    /\ status = ""
    /\ feedback = ""
    /\ num_functions = 0
    /\ report = NoReport
    /\ return_code = -1
    /\ pytest_stderr = ""
    /\ iteration_results = << >>
    /\ final_message = FALSE
    /\ report_file \in StaleFiles
    /\ runner_outcome = NoOutcome
    /\ generations = 0
    /\ critic_calls = 0
    /\ reporter_runs = 0
    /\ verdicts = << >>
    /\ ContentIdle
    /\ SharedDirIdle
    /\ CliIdle
    /\ TagIdle

\* chain.run, then extract_code and keep_at_most_n_tests.
v1_generate ==
    /\ variant = "v1"
    /\ pc = "generate"
    /\ generations' = generations + 1
    /\ \E llm_ok \in BOOLEAN :
          IF llm_ok
          THEN /\ pc' = "execute"
               /\ fault' = fault
          ELSE /\ pc' = "stopped"
               /\ fault' = "llm_generation"
    /\ UNCHANGED << Config, ContentVars, SharedDirVars, CliVars, TagVars,
                    edge, iteration, status, feedback, num_functions,
                    report, return_code, pytest_stderr, iteration_results,
                    final_message, report_file, runner_outcome, critic_calls,
                    reporter_runs, verdicts >>

\* The call of run_pytest_json and the except clauses around it.
v1_run_pytest ==
    /\ variant = "v1"
    /\ pc = "execute"
    /\ \E out \in RunnerOutcomes :
          LET r == v1_run_pytest_json(report_file, out) IN
          /\ report_file' = FileAfterRun("v1", report_file, out)
          /\ runner_outcome' = out
          /\ IF r.raised
             THEN /\ pc' = "stopped"
                  /\ fault' = "TimeoutExpired"
                  /\ report' = report
             ELSE /\ pc' = "show"
                  /\ fault' = fault
                  /\ report' = r.report
    /\ UNCHANGED << Config, ContentVars, SharedDirVars, CliVars, TagVars,
                    edge, iteration, status, feedback, num_functions,
                    return_code, pytest_stderr, iteration_results,
                    final_message, generations, critic_calls, reporter_runs,
                    verdicts >>

\* show_summary, or the "did not produce a JSON report" message.
v1_show ==
    /\ variant = "v1"
    /\ pc = "show"
    /\ pc' = "end"
    /\ final_message' = report.present
    /\ UNCHANGED << Config, ContentVars, SharedDirVars, CliVars, TagVars,
                    fault, edge, iteration, status, feedback,
                    num_functions, report, return_code, pytest_stderr,
                    iteration_results, report_file, runner_outcome,
                    generations, critic_calls, reporter_runs, verdicts >>

\* The three programs of the repository.
AllInit == Init \/ V1Init

AllNext ==
    \/ function_detector_node
    \/ test_generator_node
    \/ combiner_node
    \/ execution_node
    \/ critic_node
    \/ conditional_edge
    \/ reporter_node
    \/ v1_generate
    \/ v1_run_pytest
    \/ v1_show

AllSpec == AllInit /\ [][AllNext]_vars

\* ---------------------------------------------- detect and combine
\* The names of the model: two public names, a private one, and one that
\* lower-cases to a stopword.
FunctionNames == {"add", "run", "_aux", "Input"}

\* name.startswith('_')
StartsWithUnderscore(name) == name = "_aux"

\* name.lower()
Lower(name) == IF name = "Input" THEN "input" ELSE name

Stopwords == {"module", "key", "class", "object", "property", "input",
              "output", "returns", "return"}

\* The cap of both extractors: [:20].
MaxFunctions == 20

SeqsUpTo(S, n) == UNION { [1..k -> S] : k \in 0..n }

Range(seq) == { seq[i] : i \in 1..Len(seq) }

\* seq[:n]
Take(seq, n) == SubSeq(seq, 1, IF Len(seq) < n THEN Len(seq) ELSE n)

\* The loop that ends extract_functions_from_readme: first occurrences
\* only, no private name, no stopword.
RECURSIVE unique_functions(_, _, _)
unique_functions(functions, seen, unique) ==
    IF functions = << >> THEN unique
    ELSE LET func == Head(functions) IN
         IF /\ func \notin seen
            /\ ~StartsWithUnderscore(func)
            /\ Lower(func) \notin Stopwords
         THEN unique_functions(Tail(functions), seen \cup {func},
                               Append(unique, func))
         ELSE unique_functions(Tail(functions), seen, unique)

\* extract_functions_from_readme, from the matches of its patterns on.
extract_functions_from_readme(matches) ==
    Take(unique_functions(matches, {}, << >>), MaxFunctions)

\* The top-level definitions a user source is made of, and the sources.
MethodLists == { << "add" >>, << "add", "run" >>, << "_aux" >> }

SourceItems ==
    { [kind |-> "def", name |-> n, methods |-> << >>] : n \in FunctionNames }
    \cup { [kind |-> "class", name |-> "Calc", methods |-> m] :
                m \in MethodLists }

Sources ==
    { [parses |-> ok, items |-> items] :
        ok \in BOOLEAN, items \in SeqsUpTo(SourceItems, MaxItems) }

\* The methods of the classes from item i on, as ast nodes.
RECURSIVE method_nodes(_, _)
method_nodes(items, i) ==
    IF i > Len(items) THEN << >>
    ELSE [j \in 1..Len(items[i].methods) |->
             [kind |-> "def", name |-> items[i].methods[j],
              at |-> << i, j >>, methods |-> << >>]]
         \o method_nodes(items, i + 1)

\* ast.walk(tree), breadth first: the top-level definitions in order,
\* then the methods of the classes.
ast_walk(source) ==
    [i \in 1..Len(source.items) |->
        [kind |-> source.items[i].kind, name |-> source.items[i].name,
         at |-> << i, 0 >>, methods |-> source.items[i].methods]]
    \o method_nodes(source.items, 1)

\* extract_functions_from_python_file: every FunctionDef of the walk that
\* is not private; [] when the source does not parse.
extract_functions_from_python_file(source) ==
    IF ~source.parses THEN << >>
    ELSE LET IsPublicDef(node) ==
                 node.kind = "def" /\ ~StartsWithUnderscore(node.name)
             defs == SelectSeq(ast_walk(source), IsPublicDef)
         IN Take([i \in 1..Len(defs) |-> defs[i].name], MaxFunctions)

\* A variant of the choice that takes the names from the code first.
detect_functions_source_first(matches, source) ==
    LET functions_from_readme == extract_functions_from_readme(matches)
        functions_from_code == extract_functions_from_python_file(source)
    IN IF functions_from_code # << >> THEN functions_from_code
       ELSE IF functions_from_readme # << >> THEN functions_from_readme
       ELSE << >>

\* The choice function_detector_node makes between the two lists.
detect_functions(matches, source) ==
    LET functions_from_readme == extract_functions_from_readme(matches)
        functions_from_code == extract_functions_from_python_file(source)
    IN IF functions_from_readme # << >> THEN functions_from_readme
       ELSE IF functions_from_code # << >> THEN functions_from_code
       ELSE << >>

\* The walk of extract_user_functions: a FunctionDef whose name is
\* detected and not yet extracted, a ClassDef with a detected method whose
\* name is not yet extracted.
RECURSIVE extract_walk(_, _, _, _)
extract_walk(nodes, names, extracted_items, extracted_names) ==
    IF nodes = << >> THEN extracted_items
    ELSE LET node == Head(nodes)
             take ==
                 IF node.kind = "def"
                 THEN node.name \in names /\ node.name \notin extracted_names
                 ELSE /\ \E j \in 1..Len(node.methods) :
                            node.methods[j] \in names
                      /\ node.name \notin extracted_names
         IN IF take
            THEN extract_walk(Tail(nodes), names,
                              Append(extracted_items,
                                     [kind |-> node.kind, at |-> node.at]),
                              extracted_names \cup {node.name})
            ELSE extract_walk(Tail(nodes), names, extracted_items,
                              extracted_names)

\* extract_user_functions that hands back the whole source every time.
extract_user_functions_unfiltered(source, detected_function_names) ==
    [whole |-> TRUE, items |-> << >>]

\* extract_user_functions: the extracted items, or the whole user_code when
\* nothing was extracted or the source does not parse.
extract_user_functions(source, detected_function_names) ==
    IF ~source.parses THEN [whole |-> TRUE, items |-> << >>]
    ELSE LET extracted_items ==
                 extract_walk(ast_walk(source), Range(detected_function_names),
                              << >>, {})
         IN IF extracted_items # << >>
            THEN [whole |-> FALSE, items |-> extracted_items]
            ELSE [whole |-> TRUE, items |-> << >>]

\* The graph variant's detect and combine steps on their content; the
\* generation between them does not touch these fields.
ContentInit ==
    /\ variant = "graph"
    /\ edge_writes_kept = FALSE
    /\ pc = "detect"
    /\ fault = "none"
    /\ edge = "none"
    /\ iteration = 1
    /\ max_iterations = 1
    /\ status = ""
    /\ feedback = ""
    /\ num_functions = 0
    /\ report = NoReport
    /\ return_code = -1
    /\ pytest_stderr = ""
    /\ iteration_results = << >>
    /\ final_message = FALSE
    /\ report_file = AbsentFile
    /\ runner_outcome = NoOutcome
    /\ generations = 0
    /\ critic_calls = 0
    /\ reporter_runs = 0
    /\ verdicts = << >>
    /\ readme_content \in SeqsUpTo(FunctionNames, MaxMatches)
    /\ user_functions \in Sources
    /\ detected_functions = << >>
    /\ filtered_functions = NoOutput
    /\ SharedDirIdle
    /\ CliIdle
    /\ TagIdle

\* function_detector_node, with the names.
detector_names ==
    /\ pc = "detect"
    /\ detected_functions' = detect_functions(readme_content, user_functions)
    /\ num_functions' = Len(detected_functions')
    /\ framework' = detect_framework(code_keywords)
    /\ pc' = "combine"
    /\ UNCHANGED << Config, SharedDirVars, CliVars, code_keywords,
                    combined_code, fault, edge, iteration, status,
                    feedback, report, return_code, pytest_stderr,
                    iteration_results, final_message, report_file,
                    runner_outcome, generations, critic_calls, reporter_runs,
                    verdicts, readme_content, user_functions,
                    filtered_functions >>

\* combiner_node, with the bodies: the import lines it strips and the
\* framework wrapper it adds leave the bodies as they are.
combiner_bodies ==
    /\ pc = "combine"
    /\ filtered_functions' =
          extract_user_functions(user_functions, detected_functions)
    /\ combined_code' = Wrapper(framework)
    /\ pc' = "execute"
    /\ UNCHANGED << Config, SharedDirVars, CliVars, code_keywords,
                    framework, fault, edge, iteration, status,
                    feedback, num_functions, report, return_code,
                    pytest_stderr, iteration_results, final_message,
                    report_file, runner_outcome, generations, critic_calls,
                    reporter_runs, verdicts, readme_content, user_functions,
                    detected_functions >>

ContentNext ==
    \/ detector_names
    \/ combiner_bodies

ContentSpec == ContentInit /\ [][ContentNext]_vars

\* ---------------------------------------- two runs, one directory
\* Two runs of the graph variant (two sessions of app.py, or two main.py
\* processes) in one working directory, each inside execution_node:
\* write test_combined.py, remove .report.json, start the test runner,
\* let it finish, read .report.json, hand the report to the Critic.
LoopVars ==
    << variant, edge_writes_kept, pc, fault, edge, iteration, max_iterations,
       status, feedback, num_functions, report, return_code, pytest_stderr,
       iteration_results, final_message, report_file, runner_outcome,
       generations, critic_calls, reporter_runs, verdicts >>

SharedDirInit ==
    /\ variant = "graph"
    /\ edge_writes_kept = FALSE
    /\ pc = "execute"
    /\ fault = "none"
    /\ edge = "none"
    /\ iteration = 1
    /\ max_iterations = 1
    /\ status = ""
    /\ feedback = ""
    /\ num_functions = 0
    /\ report = NoReport
    /\ return_code = -1
    /\ pytest_stderr = ""
    /\ iteration_results = << >>
    /\ final_message = FALSE
    /\ report_file = AbsentFile
    /\ runner_outcome = NoOutcome
    /\ generations = 0
    /\ critic_calls = 0
    /\ reporter_runs = 0
    /\ verdicts = << >>
    /\ ContentIdle
    /\ CliIdle
    /\ TagIdle
    /\ run_pc = [r \in RunIds |-> "write"]
    /\ test_combined_py = 0
    /\ pytest_loaded = [r \in RunIds |-> 0]
    /\ report_json = NoArtifact
    /\ run_report = [r \in RunIds |-> NoArtifact]

\* execution_node: open("test_combined.py", "w") and the write.
write_combined(r) ==
    /\ run_pc[r] = "write"
    /\ test_combined_py' = r
    /\ run_pc' = [run_pc EXCEPT ![r] = "remove"]
    /\ UNCHANGED << LoopVars, ContentVars, CliVars, TagVars,
                    pytest_loaded, report_json,
                    run_report >>

\* run_pytest_json: os.remove(report_path) if the artifact exists.
remove_stale_report(r) ==
    /\ run_pc[r] = "remove"
    /\ report_json' = NoArtifact
    /\ run_pc' = [run_pc EXCEPT ![r] = "start"]
    /\ UNCHANGED << LoopVars, ContentVars, CliVars, TagVars,
                    test_combined_py, pytest_loaded,
                    run_report >>

\* subprocess.run: the test runner starts and loads test_combined.py.
runner_loads(r) ==
    /\ run_pc[r] = "start"
    /\ pytest_loaded' = [pytest_loaded EXCEPT ![r] = test_combined_py]
    /\ run_pc' = [run_pc EXCEPT ![r] = "running"]
    /\ UNCHANGED << LoopVars, ContentVars, CliVars, TagVars,
                    test_combined_py, report_json,
                    run_report >>

\* The test runner finishes and writes .report.json; subprocess.run returns.
runner_writes(r) ==
    /\ run_pc[r] = "running"
    /\ report_json' = [by |-> r, code |-> pytest_loaded[r]]
    /\ run_pc' = [run_pc EXCEPT ![r] = "read"]
    /\ UNCHANGED << LoopVars, ContentVars, CliVars, TagVars,
                    test_combined_py, pytest_loaded,
                    run_report >>

\* run_pytest_json: json.load of the artifact if it exists, else None.
read_report(r) ==
    /\ run_pc[r] = "read"
    /\ run_report' = [run_report EXCEPT ![r] = report_json]
    /\ run_pc' = [run_pc EXCEPT ![r] = "critic"]
    /\ UNCHANGED << LoopVars, ContentVars, CliVars, TagVars,
                    test_combined_py, pytest_loaded,
                    report_json >>

SharedDirNext ==
    \/ \E r \in RunIds : write_combined(r)
    \/ \E r \in RunIds : remove_stale_report(r)
    \/ \E r \in RunIds : runner_loads(r)
    \/ \E r \in RunIds : runner_writes(r)
    \/ \E r \in RunIds : read_report(r)

SharedDirSpec == SharedDirInit /\ [][SharedDirNext]_vars

\* ------------------------------------------------------- longer runs
\* The graph variant started with a budget that lets four executions run
\* (app.py's slider goes up to 7).
LongInit ==
    /\ variant = "graph"
    /\ edge_writes_kept \in BOOLEAN
    /\ pc = "detect"
    /\ fault = "none"
    /\ edge = "none"
    /\ iteration = 1
    /\ max_iterations = MaxBudget + 2
    /\ status = ""
    /\ feedback = ""
    /\ num_functions = 0
    /\ report = NoReport
    /\ return_code = -1
    /\ pytest_stderr = ""
    /\ iteration_results = << >>
    /\ final_message = FALSE
    /\ report_file \in StaleFiles
    /\ runner_outcome = NoOutcome
    /\ generations = 0
    /\ critic_calls = 0
    /\ reporter_runs = 0
    /\ verdicts = << >>
    /\ ContentIdle
    /\ SharedDirIdle
    /\ CliIdle
    /\ TagIdle

LongSpec == LongInit /\ [][Next]_vars

\* ------------------------------------------------ the framework tag
\* The graph variant run on user sources with and without framework
\* imports.
TagInit ==
    /\ variant = "graph"
    /\ edge_writes_kept \in BOOLEAN
    /\ pc = "detect"
    /\ fault = "none"
    /\ edge = "none"
    /\ iteration = 1
    /\ max_iterations \in BudgetInputs("graph")
    /\ status = ""
    /\ feedback = ""
    /\ num_functions = 0
    /\ report = NoReport
    /\ return_code = -1
    /\ pytest_stderr = ""
    /\ iteration_results = << >>
    /\ final_message = FALSE
    /\ report_file \in StaleFiles
    /\ runner_outcome = NoOutcome
    /\ generations = 0
    /\ critic_calls = 0
    /\ reporter_runs = 0
    /\ verdicts = << >>
    /\ ContentIdle
    /\ SharedDirIdle
    /\ CliIdle
    /\ code_keywords \in SUBSET FrameworkImports
    /\ framework = "generic"
    /\ combined_code = ""

TagSpec == TagInit /\ [][Next]_vars

\* ------------------------------------------- the command-line process
\* main.py: the import of the graph module (with its credential check),
\* the two input files, the streamed graph run, and the output file.
\* How open(path, 'r') answers: the text, FileNotFoundError, or another
\* error (PermissionError, IsADirectoryError, UnicodeDecodeError).
FileConditions == {"readable", "missing", "unreadable"}

\* A variant of read_file that answers "" for a file that is not there.
read_file_defaults_empty(condition) ==
    CASE condition = "readable"   -> [raised |-> FALSE, none |-> FALSE]
      [] condition = "missing"    -> [raised |-> FALSE, none |-> FALSE]
      [] condition = "unreadable" -> [raised |-> TRUE, none |-> FALSE]

\* read_file: the content, None after FileNotFoundError, or the exception
\* it does not catch.
read_file(condition) ==
    CASE condition = "readable"   -> [raised |-> FALSE, none |-> FALSE]
      [] condition = "missing"    -> [raised |-> FALSE, none |-> TRUE]
      [] condition = "unreadable" -> [raised |-> TRUE, none |-> FALSE]

\* The file main() hands the final test code to.
OutputFile(st) ==
    IF st = "success" THEN "test_final_generated.py"
    ELSE "test_final_failed.py"

CliInit ==
    /\ variant = "graph"
    /\ edge_writes_kept \in BOOLEAN
    /\ pc = "detect"
    /\ fault = "none"
    /\ edge = "none"
    /\ iteration = 1
    /\ max_iterations \in BudgetInputs("graph")
    /\ status = ""
    /\ feedback = ""
    /\ num_functions = 0
    /\ report = NoReport
    /\ return_code = -1
    /\ pytest_stderr = ""
    /\ iteration_results = << >>
    /\ final_message = FALSE
    /\ report_file \in StaleFiles
    /\ runner_outcome = NoOutcome
    /\ generations = 0
    /\ critic_calls = 0
    /\ reporter_runs = 0
    /\ verdicts = << >>
    /\ ContentIdle
    /\ SharedDirIdle
    /\ TagIdle
    /\ cli_pc = "import"
    /\ exit_code = 0
    /\ credential \in BOOLEAN
    /\ readme_file \in FileConditions
    /\ code_file \in FileConditions
    /\ written_files = {}

GraphVars == << LoopVars, ContentVars, SharedDirVars, TagVars >>

\* from src.graph.builder import main_graph: builder.py raises ValueError
\* when GROQ_API_KEY is not set, and the interpreter exits with code 1.
import_builder ==
    /\ cli_pc = "import"
    /\ IF credential
       THEN cli_pc' = "read_readme" /\ exit_code' = exit_code
       ELSE cli_pc' = "exited" /\ exit_code' = 1
    /\ UNCHANGED << GraphVars, credential, readme_file, code_file,
                    written_files >>

\* readme_content = read_file(args.readme); sys.exit(1) on None; an
\* exception read_file lets through ends the process with code 1 too.
read_readme ==
    /\ cli_pc = "read_readme"
    /\ LET r == read_file(readme_file) IN
       IF r.raised \/ r.none
       THEN cli_pc' = "exited" /\ exit_code' = 1
       ELSE cli_pc' = "read_code" /\ exit_code' = exit_code
    /\ UNCHANGED << GraphVars, credential, readme_file, code_file,
                    written_files >>

\* user_functions = read_file(args.code); the same.
read_code ==
    /\ cli_pc = "read_code"
    /\ LET r == read_file(code_file) IN
       IF r.raised \/ r.none
       THEN cli_pc' = "exited" /\ exit_code' = 1
       ELSE cli_pc' = "stream" /\ exit_code' = exit_code
    /\ UNCHANGED << GraphVars, credential, readme_file, code_file,
                    written_files >>

\* The loop over main_graph.stream is left by an exception of a node:
\* main() has no handler, the interpreter exits with code 1.
stream_raises ==
    /\ cli_pc = "stream"
    /\ pc = "crashed"
    /\ cli_pc' = "exited"
    /\ exit_code' = 1
    /\ UNCHANGED << GraphVars, credential, readme_file, code_file,
                    written_files >>

\* After the stream: the final report and write_file, which prints an
\* IOError and returns; main() returns, exit code 0.
save_final_tests ==
    /\ cli_pc = "stream"
    /\ pc = "end"
    /\ \E io_ok \in BOOLEAN :
          written_files' = (IF io_ok THEN written_files \cup {OutputFile(status)}
                            ELSE written_files)
    /\ cli_pc' = "exited"
    /\ exit_code' = 0
    /\ UNCHANGED << GraphVars, credential, readme_file, code_file >>

CliNext ==
    \/ import_builder
    \/ read_readme
    \/ read_code
    \/ cli_pc = "stream" /\ function_detector_node
    \/ cli_pc = "stream" /\ test_generator_node
    \/ cli_pc = "stream" /\ combiner_node
    \/ cli_pc = "stream" /\ execution_node
    \/ cli_pc = "stream" /\ critic_node
    \/ cli_pc = "stream" /\ conditional_edge
    \/ cli_pc = "stream" /\ reporter_node
    \/ stream_raises
    \/ save_final_tests

CliSpec == CliInit /\ [][CliNext]_vars

\* ================================================================ claims
\* The run is over: the graph reached END, or an exception left it.
RunOver == pc \in {"end", "crashed"}

\* The retry verdict the spec calls needs_fix: Version2.py spells it
\* test_error.
NeedsFix(v) == IF v = "graph" THEN "needs_fix" ELSE "test_error"

\* The retry class of each variant, as the claims are settled against it.
RetryClass(v) ==
    IF v = "graph" THEN {"needs_fix"} ELSE {"test_error", "incomplete"}

\* Every execution so far was followed by a needs_fix verdict.
AllNeedsFix ==
    /\ Len(verdicts) = Len(iteration_results)
    /\ \A i \in 1..Len(verdicts) : verdicts[i] = NeedsFix(variant)

Max(a, b) == IF a >= b THEN a ELSE b

\* C1: for max_iterations >= 1, a run whose every execution was followed by
\* a needs_fix verdict ends having reached the reporter, with the iteration
\* counter at max_iterations + 1 and never more than max_iterations + 1
\* generation steps.  (Stated on the finished run.)
C1_BudgetTermination ==
    (max_iterations >= 1 /\ verdicts # << >> /\ AllNeedsFix /\ RunOver)
        => /\ reporter_runs = 1
           /\ iteration = max_iterations + 1
           /\ generations <= max_iterations + 1

\* C2: whenever should_continue left for the reporter on its bound branch,
\* the status the reporter reads and the final state carries is
\* max_iterations.
C2_BoundOverwritesVerdict ==
    (edge = "bound" /\ pc \in {"reporter", "end", "crashed"})
        => status = "max_iterations"

\* C3: every run reaches the reporter, exactly once, and nothing runs after
\* it: the reporter is never entered twice, and a run that is over has
\* entered it.
C3_ReporterExactlyOnce ==
    /\ reporter_runs <= 1
    /\ (reporter_runs = 1 => pc \in {"end", "crashed"})
    /\ (RunOver => reporter_runs = 1)

LastVerdict == verdicts[Len(verdicts)]

\* C4 (as amended): the number of generation steps never exceeds
\* max_iterations when max_iterations >= 1, and is at most the one
\* unconditional first generation when max_iterations <= 0; a further
\* generation is only ever entered with the counter within the budget.
C4_GenerationsWithinBudget ==
    /\ generations <= Max(1, max_iterations)
    /\ (pc = "generate" /\ generations >= 1) => iteration <= max_iterations

\* C4 witness: the budget is spent, the Critic has just emitted needs_fix,
\* and the bound branch sent the run to the reporter.
C4_Witness ==
    /\ pc = "reporter" /\ edge = "bound"
    /\ max_iterations >= 1 /\ generations = max_iterations
    /\ LastVerdict = NeedsFix(variant)

\* C4 as first stated: once a generation has run, their number does not
\* exceed max_iterations, for every configured value.
C4_Original == generations >= 1 => generations <= max_iterations

\* C5 (as amended): after critic the controller goes back to generate iff
\* the verdict is in the variant's retry class (needs_fix in the graph
\* variant; test_error or incomplete in Version2.py) and the counter is at
\* most max_iterations.
C5_BackToGenerate ==
    [][pc = "route" =>
         (pc' = "generate" <=>
             (status \in RetryClass(variant) /\ iteration <= max_iterations))]_vars

\* C5 witness: the controller has just looped back with budget left.
C5_Witness ==
    /\ pc = "generate" /\ edge = "retry"
    /\ status \in RetryClass(variant) /\ iteration <= max_iterations

\* C5 as first stated: the retry verdicts are needs_fix and incomplete.
C5_Original ==
    [][pc = "route" =>
         (pc' = "generate" <=>
             (status \in {"needs_fix", "incomplete"}
              /\ iteration <= max_iterations))]_vars

\* C6 (as amended): after critic the controller goes to the reporter iff the
\* verdict is outside the variant's retry class or the counter exceeds
\* max_iterations; so on entry to the reporter a retry-class verdict is only
\* ever seen with the counter above max_iterations.
C6_ToReporter ==
    [][pc = "route" =>
         /\ pc' = "reporter" <=>
               (status \notin RetryClass(variant) \/ iteration > max_iterations)
         /\ (pc' = "reporter" /\ status' \in RetryClass(variant))
               => iteration' > max_iterations]_vars

\* C6 witness: the reporter is entered on the default branch with a verdict
\* that is none of success, source_error, max_iterations.
C6_Witness ==
    /\ pc = "reporter" /\ edge = "default" /\ status = "unknown"
    /\ iteration <= max_iterations

\* C6 as first stated.
C6_Original ==
    [][pc = "route" =>
         /\ pc' = "reporter" <=>
               (status \in {"success", "source_error"}
                \/ iteration > max_iterations)
         /\ pc' = "reporter" =>
               status' \in {"success", "source_error", "max_iterations"}]_vars

\* The report shows every expected test passed.
AllExpectedPassed ==
    /\ report.present
    /\ report.collected = num_functions
    /\ report.passed = report.collected
    /\ report.failed = 0 /\ report.errors = 0

\* C7 (as amended): when the latest report has collected equal to the
\* expected count and at least 1, passed equal to collected and no failures
\* or errors, the Critic sets success, makes no call to the text-generation
\* service and leaves the counter alone.
C7_FastPathSuccess ==
    [][(pc = "critic" /\ AllExpectedPassed /\ report.collected >= 1) =>
         /\ pc' = "route" /\ status' = "success"
         /\ critic_calls' = critic_calls
         /\ iteration' = iteration]_vars

\* C7 witness: the early exit was taken in a later iteration, after the
\* service had been called before.
C7_Witness ==
    /\ pc = "route" /\ AllExpectedPassed /\ report.collected >= 1
    /\ status = "success" /\ feedback = FastPathFeedback(variant)
    /\ iteration >= 2 /\ critic_calls = iteration - 1

\* C7 as first stated: also when the expected count is 0.
C7_Original ==
    [][(pc = "critic" /\ AllExpectedPassed) =>
         /\ pc' = "route" /\ status' = "success"
         /\ critic_calls' = critic_calls
         /\ iteration' = iteration]_vars

\* The generic feedback strings the two parsers fall back to.
ParseFailureFeedback ==
    {"Critic response was not valid JSON.",
     "Could not parse critic response",
     "Error parsing critic response"}

\* C8: when the Execution Adapter returned no report, the Iteration Record
\* of that execution is all zeros and the critic step on it does not raise
\* and leaves a well-formed verdict.
C8_NoReportHandled ==
    (~report.present /\ iteration_results # << >>) =>
        /\ LET rec == iteration_results[Len(iteration_results)] IN
             rec.collected = 0 /\ rec.passed = 0
             /\ rec.failed = 0 /\ rec.errors = 0
        /\ fault \notin {"llm_critic", "critic_parse"}
        /\ (pc = "route" => status \in StatusAnswers)

\* C9: an answer of the text-generation service that is not the expected
\* payload never makes the critic step raise; the critic falls back to
\* needs_fix with a generic feedback string.
C9_ParseFailureDegrades ==
    /\ fault # "critic_parse"
    /\ (pc = "route" /\ feedback \in ParseFailureFeedback)
          => status = NeedsFix(variant)

\* C10 (as amended): the critic step adds exactly 1 to the counter iff the
\* verdict it emits is in the variant's retry class (needs_fix in the graph
\* variant; test_error or incomplete in Version2.py) and leaves it unchanged
\* otherwise; and, while the counter is within max_iterations, those are
\* exactly the verdicts should_continue sends back to generate.
C10_IncrementCoupled ==
    [][/\ (pc = "critic" /\ pc' = "route") =>
            IF status' \in RetryClass(variant)
            THEN iteration' = iteration + 1
            ELSE iteration' = iteration
       /\ (pc = "route" /\ iteration <= max_iterations) =>
            (pc' = "generate" <=> status \in RetryClass(variant))]_vars

\* C10 witness: the critic has just emitted a retry-class verdict and the
\* counter was incremented for it.
C10_Witness ==
    /\ pc = "route" /\ status \in RetryClass(variant)
    /\ iteration = Len(verdicts) + 1 /\ iteration >= 2

\* C10 as first stated: the retry class is needs_fix and incomplete.
C10_Original ==
    [][/\ (pc = "critic" /\ pc' = "route") =>
            IF status' \in {"needs_fix", "incomplete"}
            THEN iteration' = iteration + 1
            ELSE iteration' = iteration
       /\ (pc = "route" /\ iteration <= max_iterations) =>
            (pc' = "generate" <=> status \in {"needs_fix", "incomplete"})]_vars

\* C11: a fault raised inside the detect, generate, combine, execute or
\* critic step never ends the run: no run is left by an exception of
\* llm_generator, of llm_critic or of the parse of the Critic's answer.
C11_FaultsCaught ==
    fault \notin {"llm_generator", "llm_critic", "critic_parse"}

\* C12 (amended): in the loop variants a timeout of the test runner leaves
\* run_pytest_json as the pair (-1, None), raises nothing, and the run goes
\* on to the Critic.
C12_TimeoutReturned ==
    [][(variant \in Variants /\ pc = "execute"
        /\ runner_outcome'.kind = "timeout") =>
            (return_code' = -1 /\ report' = NoReport
             /\ fault' = "none" /\ pc' = "critic")]_vars

C12_Witness ==
    /\ pc = "critic"
    /\ runner_outcome.kind = "timeout"
    /\ return_code = -1
    /\ report = NoReport

\* C12 as stated: the same of every Execution Adapter of the repository.
C12_Original ==
    [][(pc = "execute" /\ runner_outcome'.kind = "timeout") =>
            (return_code' = -1 /\ report' = NoReport
             /\ fault' = "none" /\ pc' = "critic")]_vars

\* Feedback whose text the service wrote: the only feedback of the program
\* that can speak of a timeout (every fixed feedback string speaks of the
\* tests or of the parse).
ServiceWritten(fb) == fb \in {"llm feedback", "llm message"}

\* C13: after an execution that timed out, a Critic step that completes
\* leaves the needs_fix-class verdict, a feedback that can mention the
\* timeout, and the iteration counter raised by exactly 1.
C13_TimeoutNeedsFix ==
    [][(pc = "critic" /\ runner_outcome.kind = "timeout" /\ pc' = "route") =>
            (/\ status' = NeedsFix(variant)
             /\ ServiceWritten(feedback')
             /\ iteration' = iteration + 1)]_vars

\* C14: the report the Critic is about to evaluate is the one the latest
\* invocation of the test runner wrote, never an artifact that was in the
\* working directory before that invocation.
C14_ReportIsFresh ==
    (pc = "critic" /\ report.present) =>
        runner_outcome.wrote = ReportFile(report)

\* No execution so far reported that every collected test passed.
EveryExecutionFailed ==
    \A i \in 1..Len(iteration_results) :
        ~(/\ iteration_results[i].collected > 0
          /\ iteration_results[i].passed = iteration_results[i].collected)

\* C15: with max_iterations >= 1, a run in which every execution failed and
\* was followed by a needs_fix verdict is over with exactly max_iterations
\* Iteration Records.
C15_RecordsEqualBudget ==
    (/\ max_iterations >= 1
     /\ RunOver
     /\ iteration_results # << >>
     /\ AllNeedsFix
     /\ EveryExecutionFailed) =>
        Len(iteration_results) = max_iterations

\* The first execution reported every expected test as passed, and at least
\* one test was expected.
FirstExecutionPassed ==
    /\ iteration_results # << >>
    /\ iteration_results[1].collected = num_functions
    /\ iteration_results[1].passed = iteration_results[1].collected
    /\ iteration_results[1].failed = 0
    /\ iteration_results[1].errors = 0
    /\ iteration_results[1].collected >= 1

\* C16 (amended): a run whose first execution reports every expected test
\* as passed, with at least one test expected, keeps iteration 1, one
\* generation step and one Iteration Record, gets the verdict success from
\* its first Critic step and keeps it to the end; no step before the
\* reporter's raises.
C16_FirstPassEndsRun ==
    FirstExecutionPassed =>
        /\ Len(iteration_results) = 1
        /\ generations = 1
        /\ iteration = 1
        /\ fault \in {"none", "llm_reporter"}
        /\ pc # "critic" => (status = "success" /\ verdicts = << "success" >>)

C16_Witness ==
    /\ FirstExecutionPassed
    /\ pc = "end"
    /\ status = "success"
    /\ iteration = 1 /\ generations = 1 /\ Len(iteration_results) = 1

\* C16 as stated, up to the second execution: also when the expected count
\* is 0 (collected = passed = expected = 0).
C16_Original ==
    (/\ Len(iteration_results) = 1
     /\ AllExpectedPassed
     /\ fault = "none"
     /\ pc # "critic") =>
        (status = "success" /\ iteration = 1 /\ generations = 1)

\* The passed count did not improve over the last two pairs of consecutive
\* Iteration Records.
Stalled ==
    LET n == Len(iteration_results) IN
    /\ n >= 3
    /\ iteration_results[n].passed <= iteration_results[n - 1].passed
    /\ iteration_results[n - 1].passed <= iteration_results[n - 2].passed

\* C17: in the graph variant, when the Iteration Records show no
\* improvement of the passed count for two consecutive iterations, the
\* controller replaces a needs_fix verdict by stalled and goes to the
\* reporter.
C17_StallOverrides ==
    [][(variant = "graph" /\ pc = "route" /\ status = "needs_fix" /\ Stalled) =>
            (pc' = "reporter" /\ status' = "stalled")]_vars

\* C18: of two runs in one working directory, each run's Critic gets the
\* report that run's own test runner wrote from that run's own combined
\* code: no run reads, overwrites or deletes the other's artifacts.
C18_RunsIsolated ==
    \A r \in RunIds :
        run_pc[r] = "critic" => run_report[r] = [by |-> r, code |-> r]

NoRepeats(seq) ==
    \A i, j \in 1..Len(seq) : seq[i] = seq[j] => i = j

\* C19: once detect has run, detected_functions has no repeated name, no
\* name that starts with an underscore, no stopword, and at most 20 names,
\* whichever of the two lists was selected.
C19_DetectedClean ==
    pc # "detect" =>
        /\ NoRepeats(detected_functions)
        /\ \A i \in 1..Len(detected_functions) :
              /\ ~StartsWithUnderscore(detected_functions[i])
              /\ Lower(detected_functions[i]) \notin Stopwords
        /\ Len(detected_functions) <= MaxFunctions

\* The function definitions of a source, by position: << i, 0 >> the
\* top-level function at i, << i, j >> the method j of the class at i.
AllDefs(source) ==
    { << i, 0 >> : i \in { k \in 1..Len(source.items) :
                             source.items[k].kind = "def" } }
    \cup UNION { { << i, j >> : j \in 1..Len(source.items[i].methods) } :
                   i \in 1..Len(source.items) }

NameOf(source, d) ==
    IF d[2] = 0 THEN source.items[d[1]].name
    ELSE source.items[d[1]].methods[d[2]]

\* The definitions whose body the Combiner's output contains.
Bodies(source, output) ==
    IF output.whole THEN AllDefs(source)
    ELSE UNION { IF output.items[k].kind = "def"
                 THEN { output.items[k].at }
                 ELSE { << output.items[k].at[1], j >> :
                          j \in 1..Len(source.items[output.items[k].at[1]].methods) } :
                 k \in 1..Len(output.items) }

\* The position of a definition in ast.walk: top-level ones first.
Before(d, e) ==
    \/ d[2] = 0 /\ e[2] # 0
    \/ (d[2] = 0) = (e[2] = 0) /\ (d[1] < e[1] \/ (d[1] = e[1] /\ d[2] < e[2]))

FirstOfItsName(source, d) ==
    \A e \in AllDefs(source) :
        NameOf(source, e) = NameOf(source, d) => ~Before(e, d)

\* The detected set names a definition of the source.
NamesADefinition(source, names) ==
    \E d \in AllDefs(source) : NameOf(source, d) \in Range(names)

Combined == pc = "execute"

C25_AppendOnly ==
    [][ IF pc = "execute"
        THEN /\ Len(iteration_results') = Len(iteration_results) + 1
             /\ SubSeq(iteration_results', 1, Len(iteration_results))
                    = iteration_results
        ELSE iteration_results' = iteration_results ]_vars

\* C25 witness: a second execute step has run, and the critic after it, with
\* both records in the sequence.
C25_Witness ==
    /\ pc = "route"
    /\ Len(iteration_results) = 2
    /\ Len(verdicts) = 2

\* C29: in every reachable state the k-th Iteration Record carries iteration
\* index k: the indices are 1, 2, 3, ... without gap or repeat, so the record
\* of iteration i is at position i and position i - 1 holds the iteration
\* before it.
C29_RecordIndexIsPosition ==
    \A k \in 1..Len(iteration_results) : iteration_results[k].iteration = k

\* C29 witness: a retry has happened and the second record, with index 2,
\* follows the first.
C29_Witness ==
    /\ Len(iteration_results) = 2
    /\ iteration_results[1].iteration = 1
    /\ iteration_results[2].iteration = 2
    /\ pc = "critic"

\* What C30 says of one step: the counter never decreases, it changes only
\* in the critic step and then by 1, and max_iterations stays as configured.
CounterStep ==
    /\ iteration' >= iteration
    /\ iteration' # iteration => (pc = "critic" /\ iteration' = iteration + 1)
    /\ max_iterations' = max_iterations

CounterInRange == 1 <= iteration /\ iteration <= max_iterations + 1

\* C30 (amended): for every configured max_iterations >= 1, in every
\* reachable state 1 <= iteration <= max_iterations + 1; and for every
\* configured max_iterations the counter never decreases, changes only in
\* the critic step and by 1, and max_iterations is never changed.
C30_CounterBounded ==
    /\ [](iteration >= 1 /\ (max_iterations >= 1 => CounterInRange))
    /\ [][CounterStep]_vars

\* C30 witness: with a budget of at least 1 the critic has just raised the
\* counter to max_iterations + 1.
C30_Witness ==
    /\ max_iterations >= 1
    /\ iteration = max_iterations + 1
    /\ pc = "route"
    /\ Len(verdicts) = max_iterations

\* C30 as stated: the range holds for every configured max_iterations.
C30_Original ==
    /\ []CounterInRange
    /\ [][CounterStep]_vars

\* C28: no false success: in every reachable state in which the verdict is
\* success, the most recent Iteration Record has collected equal to the
\* number of detected functions, passed equal to collected, and failed =
\* errors = 0, whatever the service answered to the Critic.
C28_NoFalseSuccess ==
    status = "success" =>
        /\ iteration_results # << >>
        /\ LET last == iteration_results[Len(iteration_results)]
           IN /\ last.collected = num_functions
              /\ last.passed = last.collected
              /\ last.failed = 0
              /\ last.errors = 0

\* C27: when the latest runner invocation finished within the timeout and
\* the report artifact is missing or cannot be parsed, the Execution Adapter
\* returned report None with the runner's own exit code; the sentinel -1 is
\* returned only when the invocation timed out.
C27_SentinelOnlyOnTimeout ==
    pc = "critic" =>
        /\ (runner_outcome.kind = "finished"
                /\ report_file.kind \in {"absent", "garbled"})
              => /\ report = NoReport
                 /\ return_code = ProcReturnCode(runner_outcome.wrote)
        /\ return_code = -1 => runner_outcome.kind = "timeout"

\* The steps that may directly follow a step of the graph built by
\* build_graph ("route" is the conditional edge evaluated after critic,
\* "crashed" an exception that ends the run there).
Follows(step) ==
    CASE step = "detect"   -> {"generate"}
      [] step = "generate" -> {"combine", "crashed"}
      [] step = "combine"  -> {"execute"}
      [] step = "execute"  -> {"critic"}
      [] step = "critic"   -> {"route", "crashed"}
      [] step = "route"    -> {"generate", "reporter"}
      [] step = "reporter" -> {"end", "crashed"}
      [] OTHER             -> {}

\* C26: in the graph variant the steps of a run are strictly ordered: detect
\* runs first, with iteration = 1 and before any other step, and is never
\* entered again; the step that runs after generate is combine, after
\* combine execute, after execute critic, none skipped or repeated; and
\* after critic only generate or reporter runs.
C26_StepOrder ==
    /\ [](variant = "graph" /\ pc = "detect"
             => /\ iteration = 1
                /\ generations = 0
                /\ iteration_results = << >>
                /\ verdicts = << >>
                /\ reporter_runs = 0)
    /\ [][variant = "graph"
             => /\ pc' \in Follows(pc)
                /\ pc' # "detect"]_vars

\* C26 witness: the graph variant is in its second iteration, having gone
\* generate, combine, execute once more after the critic sent it back.
C26_Witness ==
    /\ variant = "graph"
    /\ pc = "critic"
    /\ generations = 2
    /\ Len(iteration_results) = 2
    /\ combined_code # ""

\* The detect step has run.
Detected == pc \in {"combine", "execute"}

FromReadme == extract_functions_from_readme(readme_content)
FromCode == extract_functions_from_python_file(user_functions)

\* C24 (amended): in the framework-aware variant's detect step the names
\* derived from the README are the ones selected as detected_functions
\* whenever there is at least one; the names obtained by syntactic
\* extraction from the source are used only when the README yields none
\* (and they are empty when the source cannot be parsed).
C24_ReadmeNamesFirst ==
    Detected =>
        /\ FromReadme # << >> => detected_functions = FromReadme
        /\ FromReadme = << >> => detected_functions = FromCode
        /\ ~user_functions.parses => FromCode = << >>
        /\ num_functions = Len(detected_functions)

\* C24 witness: the README and the source both yield names, different
\* ones, and the README's are the detected ones.
C24_Witness ==
    /\ Detected
    /\ FromReadme # << >>
    /\ FromCode # << >>
    /\ Range(FromReadme) \cap Range(FromCode) = {}
    /\ detected_functions = FromReadme

\* C24 as stated: the names extracted from the source are the ones
\* selected whenever there are any, the README's only when the extraction
\* yields nothing or the source cannot be parsed.
C24_Original ==
    Detected =>
        /\ FromCode # << >> => detected_functions = FromCode
        /\ FromCode = << >> => detected_functions = FromReadme

\* An input error at startup: the credential is not set, or one of the two
\* input files cannot be read.
StartupError ==
    \/ ~credential
    \/ readme_file # "readable"
    \/ code_file # "readable"

\* No step of the graph has run and nothing has been written.
NothingRan ==
    /\ pc = "detect"
    /\ generations = 0
    /\ num_functions = 0
    /\ iteration_results = << >>
    /\ runner_outcome = NoOutcome
    /\ combined_code = ""
    /\ verdicts = << >>
    /\ reporter_runs = 0
    /\ written_files = {}

\* The statements of main.py in program order.
CliOrder(at) ==
    CASE at = "import"      -> 1
      [] at = "read_readme" -> 2
      [] at = "read_code"   -> 3
      [] at = "stream"      -> 4
      [] at = "exited"      -> 5
      [] OTHER              -> 0

\* C21: an input error at startup (unreadable README, unreadable source
\* file, missing credential) is fatal: no detect, generate or execute step
\* runs and no output or test file is written, the process never gets to
\* the graph, when it has stopped its exit code is 1, and no statement is
\* gone through a second time.
C21_StartupErrorFatal ==
    /\ [](StartupError
            => /\ NothingRan
               /\ cli_pc \in {"import", "read_readme", "read_code", "exited"}
               /\ (cli_pc = "exited" => exit_code = 1))
    /\ [][StartupError
            => /\ cli_pc # "exited"
               /\ CliOrder(cli_pc') > CliOrder(cli_pc)]_vars

\* C21 witness: the credential is set and the README was read, the source
\* file is not there, and the process has stopped with exit code 1.
C21_Witness ==
    /\ credential
    /\ readme_file = "readable"
    /\ code_file = "missing"
    /\ cli_pc = "exited"
    /\ exit_code = 1
    /\ NothingRan

\* C22: every completed command-line run has written the final test code
\* to exactly one of the two output files: test_final_generated.py if and
\* only if the final verdict is success, otherwise test_final_failed.py,
\* never both.
C22_ExactlyOneOutputFile ==
    (cli_pc = "exited" /\ exit_code = 0) =>
        written_files = { OutputFile(status) }

\* The controller replayed from the verdicts alone, without the framework
\* tag: the counter after the verdicts emitted so far, the branch taken
\* after the latest one, and the verdict the run ends with.
ReplayIteration ==
    1 + Cardinality({ k \in 1..Len(verdicts) : verdicts[k] = "needs_fix" })

ReplayBranch ==
    IF LastVerdict = "success" THEN "success"
    ELSE IF ReplayIteration > max_iterations THEN "bound"
    ELSE IF LastVerdict = "needs_fix" THEN "retry"
    ELSE "default"

ReplayStatus ==
    IF ReplayBranch = "bound" /\ edge_writes_kept THEN "max_iterations"
    ELSE LastVerdict

\* C23: the framework tag does not influence the controller: whatever tag
\* was detected, the iteration counter, the step the run is at after each
\* verdict, the number of generation steps and the final verdict are the
\* ones the sequence of Critic verdicts (emitted on the execution reports)
\* determines, so two runs that differ only in the tag and get the same
\* reports and verdicts go through the same steps and end alike.
C23_TagDoesNotSteer ==
    /\ iteration = ReplayIteration
    /\ pc = "route" => status = LastVerdict
    /\ (pc \in {"generate", "combine", "execute", "critic"}
            /\ verdicts # << >>)
          => /\ ReplayBranch = "retry"
             /\ edge = "retry"
             /\ status = LastVerdict
             /\ Len(iteration_results) \in {Len(verdicts), Len(verdicts) + 1}
    /\ pc \in {"reporter", "end"}
          => /\ ReplayBranch # "retry"
             /\ edge = ReplayBranch
             /\ status = ReplayStatus
             /\ generations = Len(verdicts)
             /\ Len(iteration_results) = Len(verdicts)
    /\ pc \in {"combine", "execute", "critic", "route"}
          => generations = Len(iteration_results) + (IF pc \in {"combine", "execute"} THEN 1 ELSE 0)

\* C23 witness: a flask application went through a retry and ended at the
\* reporter, as the verdicts needs_fix, success say.
C23_Witness ==
    /\ framework = "flask"
    /\ combined_code = "flask"
    /\ pc = "end"
    /\ verdicts = << "needs_fix", "success" >>
    /\ iteration = 2
    /\ status = "success"

====
